---------------------------- MODULE Spec2Model ----------------------------
(***************************************************************************)
(* A model of ExcelReportGenerator (src/excel_report_generator.py): the    *)
(* report generator that builds a workbook (a "Summary" sheet plus one     *)
(* data sheet per dataset of the bundle), styles it and saves it under a   *)
(* timestamped file name.                                                  *)
(*                                                                         *)
(* The generator's state is self.workbook; the output directory is the     *)
(* map `files`; `clock` is the one-second timestamp datetime.now() yields. *)
(* generate_report is modelled line by line as the steps a task takes      *)
(* (Call, RemoveDefault, Summary, DataSheetLoop), so that calls made from  *)
(* independent tasks interleave between the statements that read or write  *)
(* self.workbook.  ApplyDataFormattingCall is _apply_data_formatting      *)
(* called on a data sheet by itself.                                       *)
(*                                                                         *)
(* pandas and openpyxl are not part of the repository; what the calls made *)
(* by the source do in them (create_sheet, append, worksheet[...],         *)
(* Workbook.active/remove/save, Series.sum/mean/idxmax, DataFrame[...]) is *)
(* modelled at the call site, with the library rule stated in the comment  *)
(* of the definition.                                                      *)
(***************************************************************************)
EXTENDS Integers, Sequences, FiniteSets, TLC

VARIABLES workbook, calls, files, clock

vars == <<workbook, calls, files, clock>>

(***************************************************************************)
(* Bounds of the model.                                                    *)
(***************************************************************************)
\* rows of a sales dataset
MaxRows == 2
\* rows of a customer dataset
MaxCustRows == 1
\* seconds the clock may advance
MaxClock == 1

(***************************************************************************)
(* Characters and strings.  TLC gives Len, SubSeq and \o on strings.       *)
(***************************************************************************)
\* the literal indexed at line 230
UpperChars == "ABCDEFGHIJKLMNOPQRSTUVWXYZ"

LowerChars == "abcdefghijklmnopqrstuvwxyz"

DigitChars == "0123456789"

CharAt(s, i) == SubSeq(s, i, i)

RECURSIVE IndexFrom(_, _, _)
\* least j >= i with s[j] = c, or 0
IndexFrom(c, s, i) ==
    IF i > Len(s) THEN 0
    ELSE IF CharAt(s, i) = c THEN i
    ELSE IndexFrom(c, s, i + 1)

IndexIn(c, s) == IndexFrom(c, s, 1)

IsCased(c) == IndexIn(c, UpperChars) > 0 \/ IndexIn(c, LowerChars) > 0

IsDigit(c) == IndexIn(c, DigitChars) > 0

ToUpper(c) ==
    IF IndexIn(c, LowerChars) > 0 THEN CharAt(UpperChars, IndexIn(c, LowerChars)) ELSE c

ToLower(c) ==
    IF IndexIn(c, UpperChars) > 0 THEN CharAt(LowerChars, IndexIn(c, UpperChars)) ELSE c

RECURSIVE LowerStr(_)
\* str.lower()
LowerStr(s) == IF s = "" THEN "" ELSE ToLower(Head(s)) \o LowerStr(Tail(s))

RECURSIVE ReplaceChar(_, _, _)
\* str.replace(old, new) for one-character old and new
ReplaceChar(s, old, new) ==
    IF s = "" THEN ""
    ELSE (IF Head(s) = old THEN new ELSE Head(s)) \o ReplaceChar(Tail(s), old, new)

RECURSIVE TitleFrom(_, _)
\* str.title(): a cased character is upper-cased when the character before it
\* is not cased (or it is the first), lower-cased otherwise
TitleFrom(s, prevCased) ==
    IF s = "" THEN ""
    ELSE LET c == Head(s) IN
         IF IsCased(c)
         THEN (IF prevCased THEN ToLower(c) ELSE ToUpper(c)) \o TitleFrom(Tail(s), TRUE)
         ELSE c \o TitleFrom(Tail(s), FALSE)

Title(s) == TitleFrom(s, FALSE)

\* line 268: sheet_name.replace('_', ' ').title()
Humanize(key) == Title(ReplaceChar(key, "_", " "))

RECURSIVE NatToStr(_)
\* str(n) for a natural number
NatToStr(n) ==
    IF n < 10 THEN CharAt(DigitChars, n + 1)
    ELSE NatToStr(n \div 10) \o CharAt(DigitChars, (n % 10) + 1)

RECURSIVE StrToNat(_)
\* int(s) for a string of digits
StrToNat(s) ==
    IF s = "" THEN 0
    ELSE 10 * StrToNat(SubSeq(s, 1, Len(s) - 1)) + (IndexIn(CharAt(s, Len(s)), DigitChars) - 1)

\* n as k digits, zero-padded
Pad(n, k) ==
    LET t == NatToStr(n) IN
    IF Len(t) >= k THEN t ELSE SubSeq("000", 1, k - Len(t)) \o t

RECURSIVE Grouped(_)
\* the ',' option of the format mini-language: thousands separators
Grouped(n) ==
    IF n < 1000 THEN NatToStr(n)
    ELSE Grouped(n \div 1000) \o "," \o Pad(n % 1000, 3)

\* num/den rounded to the nearest integer, halves to the even neighbour
RoundHalfEven(num, den) ==
    LET q == num \div den
        r == num % den
    IN  IF 2 * r < den THEN q
        ELSE IF 2 * r > den THEN q + 1
        ELSE IF q % 2 = 0 THEN q ELSE q + 1

\* f"${x:,.2f}" for x = num/den (den = 0: the mean of no rows, nan)
Currency(num, den) ==
    IF den = 0 THEN "$nan"
    ELSE LET cents == RoundHalfEven(100 * num, den) IN
         "$" \o Grouped(cents \div 100) \o "." \o Pad(cents % 100, 2)

\* f"{x:.1%}" for x = num/den
Percent(num, den) ==
    IF den = 0 THEN "nan%"
    ELSE LET tenths == RoundHalfEven(1000 * num, den) IN
         NatToStr(tenths \div 10) \o "." \o NatToStr(tenths % 10) \o "%"

(***************************************************************************)
(* Cell values.  A value is an int, a str, a float (kept in thousandths)   *)
(* or None; one record shape carries all four.                             *)
(***************************************************************************)
IntV(n) == [t |-> "int", n |-> n, s |-> ""]

StrV(s) == [t |-> "str", n |-> 0, s |-> s]

FloatV(m) == [t |-> "float", n |-> m, s |-> ""]

NoneV == [t |-> "none", n |-> 0, s |-> ""]

\* the decimals of repr(float): the thousandths without trailing zeros
Decimals(m) ==
    IF m % 1000 = 0 THEN "0"
    ELSE IF m % 10 # 0 THEN Pad(m % 1000, 3)
    ELSE IF m % 100 # 0 THEN SubSeq(Pad(m % 1000, 3), 1, 2)
    ELSE SubSeq(Pad(m % 1000, 3), 1, 1)

\* str(cell.value), line 239
Str(v) ==
    CASE v.t = "int" -> NatToStr(v.n)
      [] v.t = "str" -> v.s
      [] v.t = "float" -> NatToStr(v.n \div 1000) \o "." \o Decimals(v.n)
      [] OTHER -> "None"

(***************************************************************************)
(* Datasets (pandas DataFrames with a default index) and dataset bundles   *)
(* (dicts, in insertion order).                                            *)
(***************************************************************************)
DataFrame(cols, rows) == [cols |-> cols, rows |-> rows]

\* len(data.columns)
NumCols(df) == Len(df.cols)

\* len(data)
NumRows(df) == Len(df.rows)

HasCol(df, c) == \E j \in 1..Len(df.cols) : df.cols[j] = c

ColIndex(df, c) == CHOOSE j \in 1..Len(df.cols) : df.cols[j] = c

\* df[c] as the sequence of its values
Column(df, c) == [i \in 1..Len(df.rows) |-> df.rows[i][ColIndex(df, c)]]

RECURSIVE SumSeq(_)
SumSeq(vs) == IF vs = <<>> THEN 0 ELSE Head(vs).n + SumSeq(Tail(vs))

\* df[c].sum()
ColSum(df, c) == SumSeq(Column(df, c))

RECURSIVE ArgMaxFrom(_, _, _)
\* the first position of the largest of ns[i..]; best is the best so far
ArgMaxFrom(ns, i, best) ==
    IF i > Len(ns) THEN best
    ELSE ArgMaxFrom(ns, i + 1, IF ns[i] > ns[best] THEN i ELSE best)

\* idxmax(): the first position holding the maximum
IdxMax(ns) == ArgMaxFrom(ns, 2, 1)

HasKey(data, k) == \E j \in 1..Len(data) : data[j].key = k

\* data[k]
GetItem(data, k) == data[CHOOSE j \in 1..Len(data) : data[j].key = k].df

(***************************************************************************)
(* Exceptions: the class raised and the names its message carries.         *)
(***************************************************************************)
NoError == [kind |-> "", names |-> {}]

Raise(kind, names) == [kind |-> kind, names |-> names]

(***************************************************************************)
(* Worksheets and workbooks (openpyxl).  A worksheet holds its title, its  *)
(* cells (a function on <<row, column>>), the row counter append() uses,   *)
(* the cells each style was given, the merged ranges and the column        *)
(* widths.  owner, kind and key record which call created the sheet and    *)
(* for what; the program does not read them.                               *)
(***************************************************************************)
NoCells == [rc \in {} |-> NoneV]

NoWidths == [c \in {} |-> 0]

Worksheet(title, owner, kind, key) ==
    [title |-> title, owner |-> owner, kind |-> kind, key |-> key,
     cells |-> NoCells, current_row |-> 0,
     headerStyled |-> {}, banded |-> {}, bordered |-> {}, bold |-> {},
     italic |-> {}, merged |-> {}, widths |-> NoWidths]

\* self.workbook = None, line 21
NoWorkbook == [exists |-> FALSE, owner |-> 0, sheets |-> <<>>]

\* Workbook(), line 258: a workbook holding the default sheet "Sheet"
Workbook(owner) ==
    [exists |-> TRUE, owner |-> owner,
     sheets |-> <<Worksheet("Sheet", owner, "default", "")>>]

\* wb.sheetnames
SheetNames(wb) == [i \in 1..Len(wb.sheets) |-> wb.sheets[i].title]

Max(S) == CHOOSE x \in S : \A y \in S : y <= x

RECURSIVE JoinNames(_)
\* ",".join(names)
JoinNames(names) ==
    IF names = <<>> THEN ""
    ELSE IF Len(names) = 1 THEN names[1]
    ELSE names[1] \o "," \o JoinNames(Tail(names))

RECURSIVE DigitsEnd(_, _)
\* the end of the run of digits of s that starts at i (i - 1 when there is none)
DigitsEnd(s, i) ==
    IF i <= Len(s) /\ IsDigit(CharAt(s, i)) THEN DigitsEnd(s, i + 1) ELSE i - 1

RECURSIVE TitleCounts(_, _, _)
\* re.findall("(value)(\d*),?", joined, re.I): the counts that follow the
\* occurrences of value in joined, scanning from i
TitleCounts(joined, value, i) ==
    LET n == Len(value) IN
    IF i + n - 1 > Len(joined) THEN {}
    ELSE IF LowerStr(SubSeq(joined, i, i + n - 1)) = LowerStr(value)
         THEN LET e == DigitsEnd(joined, i + n)
                  next == IF e + 1 <= Len(joined) /\ CharAt(joined, e + 1) = ","
                          THEN e + 2 ELSE e + 1
              IN  (IF e >= i + n THEN {StrToNat(SubSeq(joined, i + n, e))} ELSE {})
                  \cup TitleCounts(joined, value, next)
         ELSE TitleCounts(joined, value, i + 1)

\* openpyxl avoid_duplicate_name: a title that equals an existing one, case
\* ignored, gets the next free number appended
AvoidDuplicateName(names, value) ==
    IF \E i \in 1..Len(names) : LowerStr(names[i]) = LowerStr(value)
    THEN LET counts == TitleCounts(JoinNames(names), value, 1)
             highest == IF counts = {} THEN 0 ELSE Max(counts)
         IN  value \o NatToStr(highest + 1)
    ELSE value

\* wb.create_sheet(title), lines 159 and 223: an empty title becomes "Sheet";
\* the new sheet goes last.  (The keys of the model hold none of the
\* characters \ * ? : / [ ] that make create_sheet raise ValueError.)
CreateSheet(wb, title, owner, kind, key) ==
    LET t == AvoidDuplicateName(SheetNames(wb), IF title = "" THEN "Sheet" ELSE title)
    IN  [wb EXCEPT !.sheets = Append(@, Worksheet(t, owner, kind, key))]

\* ws[coordinate] = value
SetCell(ws, r, c, v) == [ws EXCEPT !.cells = (<<r, c>> :> v) @@ @]

RECURSIVE SetRow(_, _, _, _)
SetRow(ws, r, row, c) ==
    IF c > Len(row) THEN ws ELSE SetRow(SetCell(ws, r, c, row[c]), r, row, c + 1)

\* ws.append(row), line 227: the row goes below the last appended one; an
\* empty row writes no cell and still advances the counter
AppendRow(ws, row) ==
    [SetRow(ws, ws.current_row + 1, row, 1) EXCEPT !.current_row = ws.current_row + 1]

RECURSIVE AppendRows(_, _)
AppendRows(ws, rows) ==
    IF rows = <<>> THEN ws ELSE AppendRows(AppendRow(ws, Head(rows)), Tail(rows))

\* dataframe_to_rows(data, index=False, header=True), line 226: the column
\* names, then the rows
DataframeToRows(df) == <<[j \in 1..Len(df.cols) |-> StrV(df.cols[j])]>> \o df.rows

\* ws.max_row, ws.max_column: 1 for a sheet without cells
MaxRow(ws) ==
    IF DOMAIN ws.cells = {} THEN 1 ELSE Max({rc[1] : rc \in DOMAIN ws.cells})

MaxColumn(ws) ==
    IF DOMAIN ws.cells = {} THEN 1 ELSE Max({rc[2] : rc \in DOMAIN ws.cells})

\* ws.cell(row, column) and the cell iterators create the cells they visit
Touch(ws, coords) ==
    [ws EXCEPT !.cells = [rc \in (DOMAIN @) \cup coords |->
                             IF rc \in DOMAIN @ THEN @[rc] ELSE NoneV]]

Rect(r1, r2, c1, c2) == (r1..r2) \X (c1..c2)

(***************************************************************************)
(* worksheet[key] (openpyxl Worksheet.__getitem__ over range_boundaries),  *)
(* the lookup _apply_header_style iterates at line 107.                    *)
(***************************************************************************)
RECURSIVE LettersEnd(_, _, _)
\* the end of the run of at most k letters of s that starts at i
LettersEnd(s, i, k) ==
    IF k > 0 /\ i <= Len(s) /\ IsCased(CharAt(s, i)) THEN LettersEnd(s, i + 1, k - 1)
    ELSE i - 1

RECURSIVE ColumnIndexFromString(_)
\* column_index_from_string: "A" -> 1, "Z" -> 26, "AA" -> 27
ColumnIndexFromString(letters) ==
    IF letters = "" THEN 0
    ELSE 26 * ColumnIndexFromString(SubSeq(letters, 1, Len(letters) - 1))
         + IndexIn(ToUpper(CharAt(letters, Len(letters))), UpperChars)

\* the ends of the four parts of a key read as [letters][digits][:[letters][digits]]
MinColEnd(key) == LettersEnd(key, 1, 3)

MinRowEnd(key) == DigitsEnd(key, MinColEnd(key) + 1)

MaxColEnd(key) == LettersEnd(key, MinRowEnd(key) + 2, 3)

MaxRowEnd(key) == DigitsEnd(key, MaxColEnd(key) + 1)

\* the boundaries of a key whose parts end at e1, e2, e3 and e4.  A range must
\* give both corners in full ("A1:C1"), columns only ("A:C") or rows only
\* ("1:3"); anything else is "not a valid coordinate or range".  An absent
\* part is 0.
Boundaries(key, e1, e2, e3, e4) ==
    LET sep == e2 < Len(key) /\ CharAt(key, e2 + 1) = ":"
        minCol == SubSeq(key, 1, e1)
        minRow == SubSeq(key, e1 + 1, e2)
        maxCol == IF e2 < Len(key) /\ CharAt(key, e2 + 1) = ":"
                  THEN SubSeq(key, e2 + 2, e3) ELSE ""
        maxRow == IF e2 < Len(key) /\ CharAt(key, e2 + 1) = ":"
                  THEN SubSeq(key, e3 + 1, e4) ELSE ""
    IN  [ok |-> /\ IF sep THEN e4 = Len(key) ELSE e2 = Len(key)
                /\ \/ ~sep
                   \/ minCol # "" /\ maxCol # "" /\ minRow # "" /\ maxRow # ""
                   \/ minCol # "" /\ maxCol # "" /\ minRow = "" /\ maxRow = ""
                   \/ minRow # "" /\ maxRow # "" /\ minCol = "" /\ maxCol = "",
         sep |-> sep,
         min_col |-> ColumnIndexFromString(minCol),
         min_row |-> StrToNat(minRow),
         max_col |-> ColumnIndexFromString(IF maxCol # "" THEN maxCol ELSE minCol),
         max_row |-> StrToNat(IF maxRow # "" THEN maxRow ELSE minRow)]

\* openpyxl range_boundaries(key)
RangeBoundaries(key) ==
    Boundaries(key, MinColEnd(key), MinRowEnd(key), MaxColEnd(key), MaxRowEnd(key))

Got(kind, coords) == [err |-> NoError, kind |-> kind, coords |-> coords]

\* what worksheet[key] gives for the boundaries b.  kind is "cell" (one Cell),
\* "flat" (a tuple of cells: one row or one column) or "tuples" (a tuple of
\* rows or of columns, each a tuple of cells: every range with a ':' between
\* corners, "A1:C1" too); coords are the cells, which the lookup creates.
Lookup(ws, key, b) ==
    IF ~b.ok THEN [err |-> Raise("ValueError", {key}), kind |-> "", coords |-> {}]
    ELSE IF b.min_col = 0 /\ b.min_row = 0 /\ b.max_col = 0 /\ b.max_row = 0
    THEN [err |-> Raise("IndexError", {key}), kind |-> "", coords |-> {}]
    ELSE IF b.min_row = 0
    THEN Got(IF b.min_col = b.max_col THEN "flat" ELSE "tuples",
             Rect(1, MaxRow(ws), b.min_col, b.max_col))
    ELSE IF b.min_col = 0
    THEN Got(IF b.min_row = b.max_row THEN "flat" ELSE "tuples",
             Rect(b.min_row, b.max_row, 1, MaxColumn(ws)))
    ELSE IF ~b.sep THEN Got("cell", {<<b.min_row, b.min_col>>})
    ELSE Got("tuples", Rect(b.min_row, b.max_row, b.min_col, b.max_col))

\* worksheet[key], openpyxl Worksheet.__getitem__
WorksheetGetItem(ws, key) == Lookup(ws, key, RangeBoundaries(key))

(***************************************************************************)
(* The sheet formatter.  Each operator gives the worksheet it leaves and   *)
(* the exception it raises (NoError when it returns).                      *)
(***************************************************************************)
\* lines 107-116 over the cells worksheet[...] gave: iterating one Cell is a
\* TypeError; an element that is itself a tuple has no attribute fill
StyleCells(ws, got) ==
    IF got.err # NoError THEN [ws |-> ws, err |-> got.err]
    ELSE IF got.kind = "cell"
    THEN [ws |-> Touch(ws, got.coords), err |-> Raise("TypeError", {})]
    ELSE IF got.kind = "tuples" /\ got.coords # {}
    THEN [ws |-> Touch(ws, got.coords), err |-> Raise("AttributeError", {"fill"})]
    ELSE [ws |-> [Touch(ws, got.coords) EXCEPT !.headerStyled = @ \cup got.coords],
          err |-> NoError]

\* _apply_header_style: "for cell in worksheet[f'{col_range}{row_num}']" sets
\* fill, font, alignment and border of each cell
ApplyHeaderStyle(ws, row_num, col_range) ==
    StyleCells(ws, WorksheetGetItem(ws, col_range \o NatToStr(row_num)))

\* the mutant of ApplyDataFormatting that bands the odd sheet rows
ApplyDataFormattingOdd(ws, start_row, end_row, start_col, end_col) ==
    LET region == Rect(start_row, end_row, start_col, end_col) IN
    [Touch(ws, region) EXCEPT
        !.bordered = @ \cup region,
        !.banded = @ \cup {rc \in region : rc[1] % 2 = 1}]

\* _apply_data_formatting: border and centring for every cell of the region,
\* the F2F2F2 fill for the cells whose sheet row is even
ApplyDataFormatting(ws, start_row, end_row, start_col, end_col) ==
    LET region == Rect(start_row, end_row, start_col, end_col) IN
    [Touch(ws, region) EXCEPT
        !.bordered = @ \cup region,
        !.banded = @ \cup {rc \in region : rc[1] % 2 = 0}]

Min(a, b) == IF a < b THEN a ELSE b

\* lines 235-242: the longest str(cell.value) of column c
MaxLength(ws, c) ==
    Max({Len(Str(ws.cells[rc])) : rc \in {x \in DOMAIN ws.cells : x[2] = c}} \cup {0})

\* line 243
AdjustedWidth(ws, c) == Min(MaxLength(ws, c) + 2, 50)

\* lines 234-244 on a sheet whose used area holds a cell everywhere
SetWidths(ws) == [ws EXCEPT !.widths = [c \in 1..MaxColumn(ws) |-> AdjustedWidth(ws, c)]]

\* lines 233-244: ws.columns runs over every column up to max_column (none on
\* a sheet nothing was appended to) and creates the cells of the used area
AutoWidth(ws) ==
    IF ws.current_row = 0 THEN ws
    ELSE SetWidths(Touch(ws, Rect(1, MaxRow(ws), 1, MaxColumn(ws))))

\* line 230: "A:" and the letter "ABC...Z"[len(data.columns) - 1]; index -1
\* (no columns) is the last letter, an index above 25 is an IndexError
HeaderColRange(df) ==
    IF NumCols(df) > Len(UpperChars)
    THEN [err |-> Raise("IndexError", {}), range |-> ""]
    ELSE [err |-> NoError,
          range |-> "A:" \o CharAt(UpperChars,
                                  IF NumCols(df) = 0 THEN Len(UpperChars) ELSE NumCols(df))]

LastSheet(wb) == wb.sheets[Len(wb.sheets)]

ReplaceLast(wb, ws) == [wb EXCEPT !.sheets[Len(wb.sheets)] = ws]

\* lines 231-244, reached when the header style hs raised nothing
FormatDataSheet(wb, df, hs) ==
    IF hs.err # NoError THEN [wb |-> ReplaceLast(wb, hs.ws), err |-> hs.err]
    ELSE [wb |-> ReplaceLast(wb, AutoWidth(
                    ApplyDataFormatting(hs.ws, 2, NumRows(df) + 1, 1, NumCols(df)))),
          err |-> NoError]

\* line 230 on the sheet ws the rows were appended to, and what follows
StyleDataSheet(wb, df, ws, cr) ==
    IF cr.err # NoError THEN [wb |-> ReplaceLast(wb, ws), err |-> cr.err]
    ELSE FormatDataSheet(wb, df, ApplyHeaderStyle(ws, 1, cr.range))

\* lines 226-244 on the workbook whose last sheet is the new one
FillDataSheet(wb, df) ==
    StyleDataSheet(wb, df, AppendRows(LastSheet(wb), DataframeToRows(df)),
                   HeaderColRange(df))

\* create_data_sheet, lines 221-244
CreateDataSheet(wb, df, sheet_name, owner, key) ==
    FillDataSheet(CreateSheet(wb, sheet_name, owner, "data", key), df)

(***************************************************************************)
(* The summary metrics, lines 179-202.  A lookup of an absent key raises   *)
(* KeyError, whose message carries the key (for the list lookup of line    *)
(* 182, the absent columns of the list).  The lookups run in source order, *)
(* so the first absent one is the one reported.                            *)
(***************************************************************************)
ProductColumns == <<"Product_A", "Product_B", "Product_C">>

Metric(label, value) == [label |-> label, value |-> value]

Computed(metrics) == [err |-> NoError, metrics |-> metrics]

Failed(err) == [err |-> err, metrics |-> <<>>]

\* the mutant of PremiumCustomers that counts every customer
PremiumCustomersAll(customer_data) == NumRows(customer_data)

\* line 190: len(customer_data[customer_data['Category'] == 'Premium'])
PremiumCustomers(customer_data) ==
    Len(SelectSeq(Column(customer_data, "Category"), LAMBDA v : v = StrV("Premium")))

\* line 182: sales_data[[...]].sum().idxmax(), the first of the product
\* columns with the largest total
TopProduct(sales_data) ==
    ProductColumns[IdxMax([j \in 1..Len(ProductColumns) |->
                              ColSum(sales_data, ProductColumns[j])])]

\* lines 180-191
DailyMetrics(sales_data, customer_data) ==
    LET absent == {ProductColumns[j] : j \in {k \in 1..Len(ProductColumns) :
                                                ~HasCol(sales_data, ProductColumns[k])}}
    IN  IF ~HasCol(sales_data, "Total_Revenue")
        THEN Failed(Raise("KeyError", {"Total_Revenue"}))
        ELSE IF absent # {} THEN Failed(Raise("KeyError", absent))
        ELSE IF ~HasCol(customer_data, "Category")
        THEN Failed(Raise("KeyError", {"Category"}))
        ELSE Computed(<<
            Metric("Total Revenue",
                   StrV(Currency(ColSum(sales_data, "Total_Revenue"), 1))),
            Metric("Average Daily Revenue",
                   StrV(Currency(ColSum(sales_data, "Total_Revenue"), NumRows(sales_data)))),
            Metric("Top Product", StrV(TopProduct(sales_data))),
            Metric("Total Customers", IntV(NumRows(customer_data))),
            Metric("Premium Customers", IntV(PremiumCustomers(customer_data))) >>)

\* lines 193-202.  Customer_Retention and Performance_Score are floats, kept
\* in thousandths; idxmax() of a column without rows raises ValueError.
WeeklyMetrics(sales_data, customer_data) ==
    IF ~HasCol(sales_data, "Actual_Sales")
    THEN Failed(Raise("KeyError", {"Actual_Sales"}))
    ELSE IF ~HasCol(sales_data, "Customer_Retention")
    THEN Failed(Raise("KeyError", {"Customer_Retention"}))
    ELSE IF ~HasCol(sales_data, "New_Customers")
    THEN Failed(Raise("KeyError", {"New_Customers"}))
    ELSE IF ~HasCol(customer_data, "Performance_Score")
    THEN Failed(Raise("KeyError", {"Performance_Score"}))
    ELSE IF NumRows(customer_data) = 0
    THEN Failed(Raise("ValueError", {}))
    ELSE IF ~HasCol(customer_data, "Department")
    THEN Failed(Raise("KeyError", {"Department"}))
    ELSE LET scores == Column(customer_data, "Performance_Score")
             best == IdxMax([i \in 1..Len(scores) |-> scores[i].n])
         IN  Computed(<<
            Metric("Total Sales", StrV(Currency(ColSum(sales_data, "Actual_Sales"), 1))),
            Metric("Average Retention Rate",
                   StrV(Percent(ColSum(sales_data, "Customer_Retention"),
                                1000 * NumRows(sales_data)))),
            Metric("Total New Customers", IntV(ColSum(sales_data, "New_Customers"))),
            Metric("Best Department", Column(customer_data, "Department")[best]) >>)

\* lines 179 and 192: every type other than "daily" takes the weekly branch
ComputeMetrics(report_type, sales_data, customer_data) ==
    IF report_type = "daily" THEN DailyMetrics(sales_data, customer_data)
    ELSE WeeklyMetrics(sales_data, customer_data)

(***************************************************************************)
(* The summary sheet, lines 156-219.                                       *)
(***************************************************************************)
\* config['company_name'], line 26
CompanyName == "Your Company Name"

\* the length of a day in seconds: strftime("%Y-%m-%d") of line 168 keeps the
\* day of the clock, strftime of line 272 the second
SecondsPerDay == 86400

\* line 175
metrics_start_row == 4

RECURSIVE WriteMetrics(_, _, _)
\* lines 204-207: label in column A (bold), value in column B, from row i on
WriteMetrics(ws, metrics, i) ==
    IF metrics = <<>> THEN ws
    ELSE WriteMetrics(
            [SetCell(SetCell(ws, i, 1, StrV(Head(metrics).label)), i, 2, Head(metrics).value)
                EXCEPT !.bold = @ \cup {<<i, 1>>}],
            Tail(metrics), i + 1)

\* the mutant of BorderMetrics that starts at the row of the section header
BorderMetricsFromHeader(ws, n) ==
    [Touch(ws, Rect(metrics_start_row, metrics_start_row + n, 1, 2))
        EXCEPT !.bordered = @ \cup Rect(metrics_start_row, metrics_start_row + n, 1, 2)]

\* lines 210-219: a thin border on columns A and B of the metric rows
BorderMetrics(ws, n) ==
    [Touch(ws, Rect(metrics_start_row + 1, metrics_start_row + n, 1, 2))
        EXCEPT !.bordered = @ \cup Rect(metrics_start_row + 1, metrics_start_row + n, 1, 2)]

\* lines 162-169: the title and the date.  now is the clock read by line 168.
SummaryHead(ws, report_type, now) ==
    [SetCell([SetCell(ws, 1, 1,
                  StrV(CompanyName \o " - " \o Title(report_type) \o " Report Summary"))
              EXCEPT !.bold = @ \cup {<<1, 1>>}, !.merged = @ \cup {"A1:F1"}],
             2, 1, StrV("Generated: day " \o NatToStr(now \div SecondsPerDay)))
     EXCEPT !.italic = @ \cup {<<2, 1>>}]

\* lines 175-177
KeyMetricsHeader(ws) ==
    [SetCell(ws, metrics_start_row, 1, StrV("Key Metrics"))
     EXCEPT !.bold = @ \cup {<<metrics_start_row, 1>>}]

\* lines 204-219 for the metrics got, on the sheet ws that holds the header
WriteSection(wb, ws, got) ==
    IF got.err # NoError THEN [wb |-> ReplaceLast(wb, ws), err |-> got.err]
    ELSE [wb |-> ReplaceLast(wb, BorderMetrics(
                    WriteMetrics(ws, got.metrics, metrics_start_row + 1),
                    Len(got.metrics))),
          err |-> NoError]

\* lines 171-219 on the sheet ws that holds the title and the date
MetricsSection(wb, ws, data, report_type) ==
    IF ~HasKey(data, "sales_data")
    THEN [wb |-> ReplaceLast(wb, ws), err |-> Raise("KeyError", {"sales_data"})]
    ELSE IF ~HasKey(data, "customer_data")
    THEN [wb |-> ReplaceLast(wb, ws), err |-> Raise("KeyError", {"customer_data"})]
    ELSE WriteSection(wb, KeyMetricsHeader(ws),
                      ComputeMetrics(report_type, GetItem(data, "sales_data"),
                                     GetItem(data, "customer_data")))

\* lines 162-219 on the workbook whose last sheet is the new one
FillSummarySheet(wb, data, report_type, now) ==
    MetricsSection(wb, SummaryHead(LastSheet(wb), report_type, now), data, report_type)

\* create_summary_sheet, lines 156-219
CreateSummarySheet(wb, data, report_type, owner, now) ==
    FillSummarySheet(CreateSheet(wb, "Summary", owner, "summary", ""),
                     data, report_type, now)

(***************************************************************************)
(* The inputs of generate_report: a report type and a bundle, or no bundle *)
(* (the sample data of generate_sample_data).  A bundle is a sequence of   *)
(* [key, df] entries with distinct keys.                                   *)
(***************************************************************************)
\* the columns beyond the last header letter
WideColumns == 27

\* the tasks that call generate_report concurrently
NumTasks == 2

ReportTypes == {"daily", "weekly"}

RECURSIVE SeqsUpTo(_, _)
\* the sequences over S of length at most n
SeqsUpTo(S, n) ==
    IF n = 0 THEN {<<>>}
    ELSE LET shorter == SeqsUpTo(S, n - 1) IN
         shorter \cup {Append(q, x) : q \in shorter, x \in S}

Entry(key, df) == [key |-> key, df |-> df]

\* the sales rows offered: totals that tie, that differ, above and below 1,000
SalesColumns(report_type) ==
    IF report_type = "daily"
    THEN <<"Date", "Product_A", "Product_B", "Product_C", "Total_Revenue">>
    ELSE <<"Week", "Actual_Sales", "New_Customers", "Customer_Retention">>

SalesRowsOffered(report_type) ==
    IF report_type = "daily"
    THEN {<<StrV("2024-01-01"), IntV(1), IntV(7), IntV(3), IntV(1500)>>,
          <<StrV("2024-01-02"), IntV(6), IntV(0), IntV(6), IntV(7)>>}
    ELSE {<<StrV("2024-01-07"), IntV(12000), IntV(25), FloatV(800)>>,
          <<StrV("2024-01-14"), IntV(9500), IntV(40), FloatV(850)>>}

CustomerColumns(report_type) ==
    IF report_type = "daily" THEN <<"Customer_ID", "Category">>
    ELSE <<"Department", "Performance_Score">>

CustomerRowsOffered(report_type) ==
    IF report_type = "daily"
    THEN {<<StrV("CUST_0001"), StrV("Premium")>>, <<StrV("CUST_0002"), StrV("Standard")>>}
    ELSE {<<StrV("Sales"), FloatV(650)>>, <<StrV("Support"), FloatV(900)>>}

SalesFrames(report_type, n) ==
    {DataFrame(SalesColumns(report_type), rows) :
        rows \in SeqsUpTo(SalesRowsOffered(report_type), n)}

CustomerFrames(report_type, n) ==
    {DataFrame(CustomerColumns(report_type), rows) :
        rows \in SeqsUpTo(CustomerRowsOffered(report_type), n)}

\* the columns the metrics of a report type look up
RequiredSalesColumns(report_type) ==
    IF report_type = "daily"
    THEN {"Total_Revenue", "Product_A", "Product_B", "Product_C"}
    ELSE {"Actual_Sales", "Customer_Retention", "New_Customers"}

RequiredCustomerColumns(report_type) ==
    IF report_type = "daily" THEN {"Category"} ELSE {"Performance_Score", "Department"}

\* df without column c
DropColumn(df, c) ==
    LET keep == SelectSeq([j \in 1..Len(df.cols) |-> j], LAMBDA j : df.cols[j] # c) IN
    DataFrame([k \in 1..Len(keep) |-> df.cols[keep[k]]],
              [i \in 1..Len(df.rows) |-> [k \in 1..Len(keep) |-> df.rows[i][keep[k]]]])

\* a dataset of m integer columns and n rows
PlainFrame(m, n) ==
    DataFrame([j \in 1..m |-> "c" \o NatToStr(j)], [i \in 1..n |-> [j \in 1..m |-> IntV(i + j)]])

\* bundles that hold both datasets with every column the metrics need, in
\* either order
CompleteBundles(report_type, n, k) ==
    UNION {{<<Entry("sales_data", s), Entry("customer_data", c)>>,
            <<Entry("customer_data", c), Entry("sales_data", s)>>} :
           s \in SalesFrames(report_type, n), c \in CustomerFrames(report_type, k)}

\* bundles that lack a dataset or a column of a report type
LackingBundles(report_type) ==
    LET ss == SalesFrames(report_type, 1)
        cs == CustomerFrames(report_type, 1)
    IN  {<<>>}
        \cup {<<Entry("sales_data", s)>> : s \in ss}
        \cup {<<Entry("customer_data", c)>> : c \in cs}
        \cup {<<Entry("sales_data", DropColumn(s, col)), Entry("customer_data", c)>> :
                s \in ss, c \in cs, col \in RequiredSalesColumns(report_type)}
        \cup {<<Entry("sales_data", s), Entry("customer_data", DropColumn(c, col))>> :
                s \in ss, c \in cs, col \in RequiredCustomerColumns(report_type)}

\* further datasets: without columns, with more columns than header letters,
\* and under keys whose sheet names meet names already taken
ExtraEntries ==
    {Entry("extra", PlainFrame(0, n)) : n \in 0..1}
    \cup {Entry("extra", PlainFrame(WideColumns, n)) : n \in 0..1}
    \cup {Entry("Sales_Data", PlainFrame(1, 1)), Entry("summary", PlainFrame(2, 0))}

\* a complete bundle of one row each with a further dataset first or last
ExtendedBundles(report_type) ==
    LET s == CHOOSE x \in SalesFrames(report_type, 1) : NumRows(x) = 1
        c == CHOOSE x \in CustomerFrames(report_type, 1) : NumRows(x) = 1
        base == <<Entry("sales_data", s), Entry("customer_data", c)>>
    IN  {<<e>> \o base : e \in ExtraEntries} \cup {base \o <<e>> : e \in ExtraEntries}

Argument(report_type, given, data) ==
    [report_type |-> report_type, given |-> given, data |-> data]

\* the calls a sequential caller makes
Inputs ==
    UNION {{Argument(rt, TRUE, d) :
              d \in CompleteBundles(rt, MaxRows, MaxCustRows)
                    \cup LackingBundles(rt) \cup ExtendedBundles(rt)}
           \cup {Argument(rt, FALSE, <<>>)} : rt \in ReportTypes}

\* the calls concurrent tasks make: bundles in the order of the sample data
ConcurrentInputs ==
    {Argument(rt, TRUE, <<Entry("sales_data", s), Entry("customer_data", c)>>) :
        rt \in {"daily"}, s \in SalesFrames("daily", 1), c \in CustomerFrames("daily", 0)}

\* generate_sample_data: both datasets of the report type, sales_data first
\* (random values; the model draws MaxRows and MaxCustRows rows of the rows
\* offered, with the columns the report reads)
GenerateSampleData(report_type) ==
    {<<Entry("sales_data", s), Entry("customer_data", c)>> :
        s \in {x \in SalesFrames(report_type, MaxRows) : NumRows(x) = MaxRows},
        c \in {x \in CustomerFrames(report_type, MaxCustRows) : NumRows(x) = MaxCustRows}}

(***************************************************************************)
(* generate_report, lines 246-279, as the steps of a task.                 *)
(*   pc "remove"  : before line 261                                        *)
(*   pc "summary" : before line 264                                        *)
(*   pc "sheets"  : at the head of the loop of line 267, entry i is next   *)
(*   pc "done"    : returned path                                          *)
(*   pc "failed"  : raised err                                             *)
(***************************************************************************)
NoPath == [report_type |-> "", timestamp |-> 0]

Idle ==
    [pc |-> "idle", report_type |-> "", data |-> <<>>, i |-> 0, err |-> NoError,
     path |-> NoPath]

Running(c) == c.pc \in {"remove", "summary", "sheets"}

NoFiles == [p \in {} |-> [written |-> FALSE, sheets |-> <<>>, by |-> 0]]

TypeOK ==
    /\ workbook.exists \in BOOLEAN
    /\ \A t \in DOMAIN calls :
          calls[t].pc \in {"idle", "remove", "summary", "sheets", "done", "failed"}
    /\ clock \in 0..(MaxClock + 1)

Init ==
    /\ workbook = NoWorkbook
    /\ calls = [t \in {1} |-> Idle]
    /\ files = NoFiles
    /\ clock = 0

ConcurrentInit ==
    /\ workbook = NoWorkbook
    /\ calls = [t \in 1..NumTasks |-> Idle]
    /\ files = NoFiles
    /\ clock = 0

\* lines 246-258: the bundle is the one given or the sample data; then
\* self.workbook = Workbook()
Call(t, inputs) ==
    /\ ~Running(calls[t])
    /\ \E arg \in inputs :
         \E data \in (IF arg.given THEN {arg.data} ELSE GenerateSampleData(arg.report_type)) :
            calls' = [calls EXCEPT ![t] =
                        [pc |-> "remove", report_type |-> arg.report_type, data |-> data,
                         i |-> 0, err |-> NoError, path |-> NoPath]]
    /\ workbook' = Workbook(t)
    /\ UNCHANGED <<files, clock>>

Fail(t, err) == [calls EXCEPT ![t].pc = "failed", ![t].err = err]

\* line 261: self.workbook.remove(self.workbook.active).  active is the first
\* sheet, or None in a workbook without sheets, and remove(None) raises
\* ValueError
RemoveDefault(t) ==
    /\ calls[t].pc = "remove"
    /\ IF workbook.sheets = <<>>
       THEN /\ calls' = Fail(t, Raise("ValueError", {}))
            /\ UNCHANGED workbook
       ELSE /\ calls' = [calls EXCEPT ![t].pc = "summary"]
            /\ workbook' = [workbook EXCEPT !.sheets = Tail(@)]
    /\ UNCHANGED <<files, clock>>

\* the mutant of AfterSummary that saves the workbook before the data sheets
AfterSummarySaveFirst(data) == Len(data) + 1

\* line 267: the loop over the bundle starts with its first entry
AfterSummary(data) == 1

\* line 264
Summary(t) ==
    /\ calls[t].pc = "summary"
    /\ \E r \in {CreateSummarySheet(workbook, calls[t].data, calls[t].report_type, t, clock)} :
       /\ workbook' = r.wb
       /\ calls' = IF r.err # NoError THEN Fail(t, r.err)
                   ELSE [calls EXCEPT ![t].pc = "sheets",
                                      ![t].i = AfterSummary(calls[t].data)]
    /\ UNCHANGED <<files, clock>>

\* line 274: the file name keeps the report type and the second of the clock
FilePath(report_type, now) == [report_type |-> report_type, timestamp |-> now]

\* lines 272-279: workbook.save writes the sheets of self.workbook to the
\* path; a workbook without sheets makes it raise IndexError after the file
\* has been opened for writing
Save(t) ==
    LET path == FilePath(calls[t].report_type, clock) IN
    IF workbook.sheets = <<>>
    THEN [calls |-> Fail(t, Raise("IndexError", {})),
          files |-> (path :> [written |-> FALSE, sheets |-> <<>>, by |-> t]) @@ files]
    ELSE [calls |-> [calls EXCEPT ![t].pc = "done", ![t].path = path],
          files |-> (path :> [written |-> TRUE, sheets |-> workbook.sheets, by |-> t])
                    @@ files]

\* lines 267-279, from the head of the loop: one more data sheet (lines
\* 268-269), or, with the bundle exhausted, the save and the return.  The save
\* is not reached by any bundle: every bundle that passes line 264 holds a
\* dataset, and create_data_sheet raises for every dataset (line 230).
DataSheetLoop(t) ==
    /\ calls[t].pc = "sheets"
    /\ IF calls[t].i <= Len(calls[t].data)
       THEN \E r \in {CreateDataSheet(workbook, calls[t].data[calls[t].i].df,
                                      Humanize(calls[t].data[calls[t].i].key), t,
                                      calls[t].data[calls[t].i].key)} :
               /\ workbook' = r.wb
               /\ calls' = IF r.err # NoError THEN Fail(t, r.err)
                           ELSE [calls EXCEPT ![t].i = @ + 1]
               /\ UNCHANGED files
       ELSE \E s \in {Save(t)} :
               /\ calls' = s.calls
               /\ files' = s.files
               /\ UNCHANGED workbook
    /\ UNCHANGED clock

\* a second passes
Tick ==
    /\ clock < MaxClock
    /\ clock' = clock + 1
    /\ UNCHANGED <<workbook, calls, files>>

\* _apply_data_formatting called on its own, with the arguments of line 231,
\* on a data sheet self.workbook holds
ApplyDataFormattingCall(k) ==
    /\ \A t \in DOMAIN calls : ~Running(calls[t])
    /\ k \in 1..Len(workbook.sheets)
    /\ workbook.sheets[k].kind = "data"
    /\ \E t \in DOMAIN calls :
          /\ workbook.sheets[k].owner = t
          /\ HasKey(calls[t].data, workbook.sheets[k].key)
          /\ LET df == GetItem(calls[t].data, workbook.sheets[k].key) IN
             workbook' = [workbook EXCEPT !.sheets[k] =
                             ApplyDataFormatting(@, 2, NumRows(df) + 1, 1, NumCols(df))]
    /\ UNCHANGED <<calls, files, clock>>

Next ==
    \/ \E t \in DOMAIN calls : Call(t, Inputs)
    \/ \E t \in DOMAIN calls : RemoveDefault(t)
    \/ \E t \in DOMAIN calls : Summary(t)
    \/ \E t \in DOMAIN calls : DataSheetLoop(t)
    \/ \E k \in 1..(NumTasks + 1) : ApplyDataFormattingCall(k)
    \/ Tick

Spec == Init /\ [][Next]_vars

ConcurrentNext ==
    \/ \E t \in DOMAIN calls : Call(t, ConcurrentInputs)
    \/ \E t \in DOMAIN calls : RemoveDefault(t)
    \/ \E t \in DOMAIN calls : Summary(t)
    \/ \E t \in DOMAIN calls : DataSheetLoop(t)
    \/ Tick

ConcurrentSpec == ConcurrentInit /\ [][ConcurrentNext]_vars


(***************************************************************************)
(* The properties.  A call is finished when it has returned or raised.     *)
(***************************************************************************)
Finished(c) == c.pc \in {"done", "failed"}

\* the datasets and columns the metrics of a report type need and data lacks
Missing(report_type, data) ==
    {k \in {"sales_data", "customer_data"} : ~HasKey(data, k)}
    \cup (IF HasKey(data, "sales_data")
          THEN {c \in RequiredSalesColumns(report_type) :
                    ~HasCol(GetItem(data, "sales_data"), c)}
          ELSE {})
    \cup (IF HasKey(data, "customer_data")
          THEN {c \in RequiredCustomerColumns(report_type) :
                    ~HasCol(GetItem(data, "customer_data"), c)}
          ELSE {})

\* a bundle the spec calls valid: nothing the metrics need is missing and
\* every dataset has a column
ValidBundle(report_type, data) ==
    /\ Missing(report_type, data) = {}
    /\ \A k \in 1..Len(data) : NumCols(data[k].df) >= 1

\* the files the calls of task t wrote or opened
FilesBy(t) == {p \in DOMAIN files : files[p].by = t}

Built(wb, data, t) ==
    /\ \E k \in 1..Len(wb.sheets) : wb.sheets[k].kind = "summary" /\ wb.sheets[k].owner = t
    /\ \A j \in 1..Len(data) :
          \E k \in 1..Len(wb.sheets) :
             /\ wb.sheets[k].kind = "data"
             /\ wb.sheets[k].owner = t
             /\ wb.sheets[k].key = data[j].key

\* C2: no partial workbook is persisted on failure: a step that writes a file
\* is taken by a call whose summary sheet and data sheets have all been built,
\* and a step in which a call fails writes no file.
C2_NoPartialWorkbook ==
    [][\A t \in DOMAIN calls :
          /\ (files' # files /\ calls'[t] # calls[t]) =>
                (calls[t].pc = "sheets" /\ Built(workbook, calls[t].data, t))
          /\ (calls[t].pc # "failed" /\ calls'[t].pc = "failed") => files' = files]_vars

\* C2's case: a call failed while it built a data sheet, the summary sheet and
\* the data sheet are in the workbook, and there is no file
C2_Witness ==
    \E t \in DOMAIN calls :
        /\ calls[t].pc = "failed"
        /\ calls[t].i >= 1
        /\ Len(workbook.sheets) = 2
        /\ workbook.sheets[2].kind = "data"
        /\ DOMAIN files = {}

\* C3: a call on a bundle that holds a dataset without columns fails with
\* EmptyDatasetError and has written no file.  (The exceptions of the source
\* are Python's and the libraries'; an EmptyDatasetError would be an exception
\* raised for the absence of columns.)
C3_EmptyDatasetError ==
    \A t \in DOMAIN calls :
        (Finished(calls[t]) /\ \E k \in 1..Len(calls[t].data) : NumCols(calls[t].data[k].df) = 0) =>
            /\ calls[t].pc = "failed"
            /\ calls[t].err.kind = "EmptyDatasetError"
            /\ FilesBy(t) = {}

\* C4: a call on a bundle that lacks a dataset or a column the metrics of its
\* report type need fails with an error that names something that is missing;
\* KeyError, the error of a failed lookup, is taken for MissingDataError.
C4_MissingDataError ==
    \A t \in DOMAIN calls :
        (Finished(calls[t]) /\ Missing(calls[t].report_type, calls[t].data) # {}) =>
            /\ calls[t].pc = "failed"
            /\ calls[t].err.kind = "KeyError"
            /\ calls[t].err.names # {}
            /\ calls[t].err.names \subseteq Missing(calls[t].report_type, calls[t].data)

\* C5: a call on a bundle whose datasets all have N >= 0 rows and M >= 1
\* columns succeeds, for both report types, and the data sheet of each dataset
\* in the saved workbook has the N + 1 rows (the header, then the rows in
\* order) and the M columns of the dataset.
C5_DataSheetShape ==
    \A t \in DOMAIN calls :
        (Finished(calls[t]) /\ ValidBundle(calls[t].report_type, calls[t].data)) =>
            /\ calls[t].pc = "done"
            /\ calls[t].path \in DOMAIN files
            /\ Len(files[calls[t].path].sheets) = 1 + Len(calls[t].data)
            /\ \A k \in 1..Len(calls[t].data) :
                  /\ DOMAIN files[calls[t].path].sheets[k + 1].cells
                        = Rect(1, NumRows(calls[t].data[k].df) + 1,
                               1, NumCols(calls[t].data[k].df))
                  /\ \A rc \in DOMAIN files[calls[t].path].sheets[k + 1].cells :
                        files[calls[t].path].sheets[k + 1].cells[rc]
                           = DataframeToRows(calls[t].data[k].df)[rc[1]][rc[2]]


\* a data sheet _apply_data_formatting has been applied to (it has put the
\* border on the cells of a data region that is not empty)
Formatted(ws) == ws.kind = "data" /\ ws.bordered # {}

DataSheetsOf(t) ==
    {k \in 1..Len(workbook.sheets) :
        /\ Finished(calls[t])
        /\ workbook.sheets[k].kind = "data"
        /\ workbook.sheets[k].owner = t
        /\ HasKey(calls[t].data, workbook.sheets[k].key)
        /\ NumCols(GetItem(calls[t].data, workbook.sheets[k].key)) >= 1}

DatasetOf(t, k) == GetItem(calls[t].data, workbook.sheets[k].key)

\* C7: in every data sheet built from a dataset of M >= 1 columns (M > 26
\* too) the header style is on exactly the M cells of row 1.
C7_HeaderStyled ==
    \A t \in DOMAIN calls :
        \A k \in DataSheetsOf(t) :
            workbook.sheets[k].headerStyled
               = {<<1, c>> : c \in 1..NumCols(DatasetOf(t, k))}

\* the longest string of column c of a dataset, its header included
LongestIn(df, c) ==
    Max({Len(df.cols[c])} \cup {Len(Str(df.rows[i][c])) : i \in 1..Len(df.rows)})

\* C8: every column of every data sheet has the width min(50, 2 + L), L the
\* length of the longest string of the column, header included.
C8_ColumnWidth ==
    \A t \in DOMAIN calls :
        \A k \in DataSheetsOf(t) :
            /\ DOMAIN workbook.sheets[k].widths = 1..NumCols(DatasetOf(t, k))
            /\ \A c \in DOMAIN workbook.sheets[k].widths :
                  /\ workbook.sheets[k].widths[c]
                        = Min(50, 2 + LongestIn(DatasetOf(t, k), c))
                  /\ workbook.sheets[k].widths[c] \in 2..52

\* the position of column c of a dataset
PositionOf(df, c) == CHOOSE j \in 1..Len(df.cols) : df.cols[j] = c

RECURSIVE TotalOver(_, _, _)
\* the total of the column at position j over the rows whose indexes are in S
TotalOver(df, j, S) ==
    IF S = {} THEN 0
    ELSE LET i == CHOOSE x \in S : TRUE IN df.rows[i][j].n + TotalOver(df, j, S \ {i})

TotalOf(df, c) == TotalOver(df, PositionOf(df, c), 1..Len(df.rows))

RECURSIVE DigitsOf(_)
\* the digits of a string, as a number
DigitsOf(s) ==
    IF s = "" THEN ""
    ELSE (IF IsDigit(CharAt(s, 1)) THEN CharAt(s, 1) ELSE "") \o DigitsOf(SubSeq(s, 2, Len(s)))

\* the summary sheet a call of task t, past line 264, has built
SummaryOf(t) ==
    workbook.sheets[CHOOSE k \in 1..Len(workbook.sheets) :
                        workbook.sheets[k].kind = "summary" /\ workbook.sheets[k].owner = t]

\* C9: the summary sheet of a daily report lists, in this order, Total
\* Revenue (the total of Total_Revenue, as an amount in dollars and cents),
\* Average Daily Revenue, Top Product (a product column whose total is the
\* largest), Total Customers (the rows of customer_data) and Premium
\* Customers (the rows whose Category is "Premium").
C9_DailyMetrics ==
    \A t \in DOMAIN calls :
        (calls[t].pc = "sheets" /\ calls[t].report_type = "daily") =>
            /\ [i \in 1..5 |-> SummaryOf(t).cells[<<metrics_start_row + i, 1>>]]
                  = <<StrV("Total Revenue"), StrV("Average Daily Revenue"),
                      StrV("Top Product"), StrV("Total Customers"),
                      StrV("Premium Customers")>>
            /\ SummaryOf(t).cells[<<metrics_start_row + 1, 2>>].t = "str"
            /\ StrToNat(DigitsOf(SummaryOf(t).cells[<<metrics_start_row + 1, 2>>].s))
                  = 100 * TotalOf(GetItem(calls[t].data, "sales_data"), "Total_Revenue")
            /\ \E j \in 1..Len(ProductColumns) :
                  /\ SummaryOf(t).cells[<<metrics_start_row + 3, 2>>] = StrV(ProductColumns[j])
                  /\ \A o \in 1..Len(ProductColumns) :
                        TotalOf(GetItem(calls[t].data, "sales_data"), ProductColumns[o])
                           <= TotalOf(GetItem(calls[t].data, "sales_data"), ProductColumns[j])
            /\ SummaryOf(t).cells[<<metrics_start_row + 4, 2>>]
                  = IntV(Len(GetItem(calls[t].data, "customer_data").rows))
            /\ SummaryOf(t).cells[<<metrics_start_row + 5, 2>>]
                  = IntV(Cardinality(
                       {i \in 1..Len(GetItem(calls[t].data, "customer_data").rows) :
                           GetItem(calls[t].data, "customer_data").rows[i][
                               PositionOf(GetItem(calls[t].data, "customer_data"), "Category")]
                             = StrV("Premium")}))

\* C9's case: a daily summary over two sales rows and a customer who is not
\* Premium, where the top product is not the first product column
C9_Witness ==
    \E t \in DOMAIN calls :
        /\ calls[t].pc = "sheets"
        /\ calls[t].report_type = "daily"
        /\ Len(GetItem(calls[t].data, "sales_data").rows) = 2
        /\ SummaryOf(t).cells[<<metrics_start_row + 1, 2>>] = StrV("$1,507.00")
        /\ SummaryOf(t).cells[<<metrics_start_row + 3, 2>>] = StrV("Product_C")
        /\ SummaryOf(t).cells[<<metrics_start_row + 4, 2>>] = IntV(1)
        /\ SummaryOf(t).cells[<<metrics_start_row + 5, 2>>] = IntV(0)

\* C10: invocations from independent tasks each build their own workbook:
\* the workbook an invocation created holds no sheet of another invocation,
\* and the file at a returned path holds the sheets of the invocation that
\* returned it.
C10_OwnWorkbook ==
    /\ \A k \in 1..Len(workbook.sheets) : workbook.sheets[k].owner = workbook.owner
    /\ \A t \in DOMAIN calls :
          calls[t].pc = "done" =>
             /\ calls[t].path \in DOMAIN files
             /\ files[calls[t].path].by = t
             /\ \A k \in 1..Len(files[calls[t].path].sheets) :
                   files[calls[t].path].sheets[k].owner = t


\* the row of the "Key Metrics" section header of a summary sheet
HeaderRow(ws) ==
    CHOOSE r \in {rc[1] : rc \in DOMAIN ws.cells} : ws.cells[<<r, 1>>] = StrV("Key Metrics")

\* the label/value pairs the metric computation returns for the call of task t
MetricsOf(t) ==
    ComputeMetrics(calls[t].report_type, GetItem(calls[t].data, "sales_data"),
                   GetItem(calls[t].data, "customer_data")).metrics

\* C11 as the spec states it: the k pairs are in the k rows that start two
\* rows below the row of the "Key Metrics" header, label in column A and
\* value in column B, and the border is on exactly those cells.
C11_MetricsTwoRowsBelow ==
    \A t \in DOMAIN calls :
        calls[t].pc = "sheets" =>
            /\ \A i \in 1..Len(MetricsOf(t)) :
                  /\ <<HeaderRow(SummaryOf(t)) + 1 + i, 1>> \in DOMAIN SummaryOf(t).cells
                  /\ SummaryOf(t).cells[<<HeaderRow(SummaryOf(t)) + 1 + i, 1>>]
                        = StrV(MetricsOf(t)[i].label)
                  /\ <<HeaderRow(SummaryOf(t)) + 1 + i, 2>> \in DOMAIN SummaryOf(t).cells
                  /\ SummaryOf(t).cells[<<HeaderRow(SummaryOf(t)) + 1 + i, 2>>]
                        = MetricsOf(t)[i].value
            /\ SummaryOf(t).bordered
                  = Rect(HeaderRow(SummaryOf(t)) + 2,
                         HeaderRow(SummaryOf(t)) + 1 + Len(MetricsOf(t)), 1, 2)

\* C11 amended: the k pairs are, in order, in the k rows that start at the
\* row right below the row of the "Key Metrics" header, label in column A and
\* value in column B, and the border is on exactly the cells of those k rows
\* in columns A and B.
C11_MetricsBelowHeader ==
    \A t \in DOMAIN calls :
        calls[t].pc = "sheets" =>
            /\ \A i \in 1..Len(MetricsOf(t)) :
                  /\ SummaryOf(t).cells[<<HeaderRow(SummaryOf(t)) + i, 1>>]
                        = StrV(MetricsOf(t)[i].label)
                  /\ SummaryOf(t).cells[<<HeaderRow(SummaryOf(t)) + i, 2>>]
                        = MetricsOf(t)[i].value
            /\ SummaryOf(t).bordered
                  = Rect(HeaderRow(SummaryOf(t)) + 1,
                         HeaderRow(SummaryOf(t)) + Len(MetricsOf(t)), 1, 2)

\* C11's case: the summary sheet of a weekly report, whose four metrics are in
\* rows 5 to 8 below the header of row 4, bordered, with nothing in row 9
C11_Witness ==
    \E t \in DOMAIN calls :
        /\ calls[t].pc = "sheets"
        /\ calls[t].report_type = "weekly"
        /\ SummaryOf(t).cells[<<4, 1>>] = StrV("Key Metrics")
        /\ SummaryOf(t).cells[<<5, 1>>] = StrV("Total Sales")
        /\ SummaryOf(t).cells[<<8, 1>>] = StrV("Best Department")
        /\ SummaryOf(t).cells[<<8, 2>>] = StrV("Support")
        /\ <<8, 2>> \in SummaryOf(t).bordered
        /\ <<9, 1>> \notin DOMAIN SummaryOf(t).cells

=============================================================================
